---- MODULE Spec2Model ----
(***************************************************************************)
(* The request/session core of async_robin_stocks: one client instance     *)
(* (client.py), the transport helper request_post (helper.py) and the      *)
(* Authenticator login / logout (authentication.py), together with the     *)
(* credential (pickle) file of one profile.                                *)
(*                                                                         *)
(* Python values are modelled as follows.                                  *)
(*   - a dict is a function from its keys (strings) to values, so that     *)
(*     `key in d` is  key \in DOMAIN d  and {} is the empty function;       *)
(*   - None, where a dict is expected, is the record None;                 *)
(*   - a header value is a sequence of words: 'Bearer tokA' is             *)
(*     <<"Bearer", "tokA">>; None, where a header value is expected, is    *)
(*     the empty sequence NoneValue and str(None) is <<"None">>.           *)
(* authentication.py binds the package with `import aiofiles` and then uses    *)
(* aiofiles.os.mkdir and aiofiles.os.remove.  The package's __init__ binds only *)
(* open, tempfile and the std streams, so the attribute aiofiles.os resolves    *)
(* only when some module of the process has imported the submodule; no file   *)
(* of the repository is seen to do so.  Both processes are modelled           *)
(* (aiofiles_os), fixed for the life of the process.                          *)
(* A Python list is List(<<...>>), so that every value a helper handles is  *)
(* a record.                                                               *)
(* An HTTP exchange is a reply record: got = FALSE when no response        *)
(* arrived (network failure, closed session), otherwise the status, whether *)
(* the body parses as JSON, and the parsed body.                           *)
(*                                                                         *)
(* Spec is the life of one client: login, logout and a login-required data *)
(* call.  SpecHelper is the transport helper alone: request_get in its     *)
(* four modes (the pagination loop one GET at a time) and request_post, on *)
(* a client whose session is open or closed.                               *)
(***************************************************************************)
EXTENDS Integers, Sequences, FiniteSets, TLC

VARIABLES
    LOGGED_IN,  \* client.LOGGED_IN
    HEADERS,    \* client.HEADERS: header name -> value
    SESSION,    \* client.SESSION: "open" or "closed"
    pickle,     \* the credential file robinhood<pickle_name>.pickle
    pc,         \* where the running login call is suspended ("idle": none)
    call,       \* locals of the running login call
    hist,       \* what the running (or last) login call has done so far
    outcome,    \* how the last finished call ended
    logins,     \* number of login calls made
    aiofiles_os, \* the attribute aiofiles.os resolves in this process
    req,        \* the frame of the running helper call (request_get, request_post)
    peer,       \* the attributes of a second client instance of the process
    tasks       \* the frames of request_post calls running concurrently

vars ==
    <<LOGGED_IN, HEADERS, SESSION, pickle, pc, call, hist, outcome, logins, aiofiles_os,
      req, peer, tasks>>

\* ------------------------------------------------------------ bounds
MaxLogins == 2
MaxMfa == 4
MaxChallenge == 3
MaxAttempts == 2
MaxFetch == 4
MaxRecords == 2
MaxTasks == 2

\* ------------------------------------------------------------ values
AccessTokens == {"tokA", "tokB"}
RefreshTokens == {"refA"}
DeviceTokens == {"dev1", "dev2"}
ChallengeIds == {"ch1", "ch2"}

None == [pynone |-> TRUE]
IsNone(v) == "pynone" \in DOMAIN v
EmptyDict == [k \in {} |-> TRUE]
Nothing == [nothing |-> TRUE]

\* `if data:` -- None and the empty dict are falsy
Truthy(data) == ~IsNone(data) /\ DOMAIN data # {}

\* `key in data` on a dict
Has(data, key) == key \in DOMAIN data

NoneValue == <<>>

\* str(value) as update_session applies it
str(value) == IF value = NoneValue THEN <<"None">> ELSE value

\* '{0} {1}'.format(token_type, access_token)
format(token_type, access_token) == <<token_type, access_token>>

\* client.update_session(key, value) on the header map h
update_session(h, key, value) ==
    [k \in DOMAIN h \cup {key} |-> IF k = key THEN str(value) ELSE h[k]]

FormEncoded == <<"application/x-www-form-urlencoded;", "charset=utf-8">>

InitialHeaders ==
    [k \in {"Accept", "Accept-Encoding", "Accept-Language", "Content-Type",
            "X-Robinhood-API-Version", "Connection", "User-Agent"} |->
        CASE k = "Accept" -> <<"*/*">>
          [] k = "Accept-Encoding" -> <<"gzip,deflate,br">>
          [] k = "Accept-Language" -> <<"en-US,en;q=1">>
          [] k = "Content-Type" -> FormEncoded
          [] k = "X-Robinhood-API-Version" -> <<"1.431.4">>
          [] k = "Connection" -> <<"keep-alive">>
          [] k = "User-Agent" -> <<"*">>]

\* attributes of an AsyncIORobinStocksClient instance that login touches
ClientAttributes ==
    {"LOGGED_IN", "HEADERS", "SESSION", "logger", "set_login_state",
     "update_session", "login", "logout", "close"}

\* getattr(client, name) succeeds
HasAttr(name) == name \in ClientAttributes

\* ------------------------------------------------------------ credential file
NoDir == [nodir |-> TRUE]
NoFile == [nofile |-> TRUE]
Garbage == [garbage |-> TRUE]

TokenSet(tt, at, rt, dt) ==
    [token_type |-> tt, access_token |-> at, refresh_token |-> rt, device_token |-> dt]

TokenSets ==
    {TokenSet("Bearer", at, rt, dt) :
        at \in AccessTokens, rt \in RefreshTokens, dt \in DeviceTokens}

\* os.path.exists(data_dir)
dir_exists(file) == file # NoDir

\* aiofiles.os.mkdir(data_dir) when the directory is missing
mkdir(file) == IF dir_exists(file) THEN file ELSE NoFile

\* os.path.exists(pickle_path)
exists(file) == file \notin {NoDir, NoFile}

\* pickle.loads and the four key reads succeed
loads_ok(file) == file \in TokenSets

\* ------------------------------------------------------------ transport
Reply(status, parsable, body) ==
    [got |-> TRUE, status |-> status, parsable |-> parsable, body |-> body]

NoReply == [got |-> FALSE, status |-> 0, parsable |-> FALSE, body |-> EmptyDict]

TokenBody(at, rt) == [access_token |-> at, token_type |-> "Bearer", refresh_token |-> rt]
TokenBodyNoRefresh(at) == [access_token |-> at, token_type |-> "Bearer"]
TokenBodyNoType(at, rt) == [access_token |-> at, refresh_token |-> rt]
MfaBody == [mfa_required |-> TRUE, mfa_type |-> "app"]
ChallengeBody(id, n) ==
    [detail |-> "Request blocked, challenge issued.",
     challenge |-> [id |-> id, remaining_attempts |-> n]]
DetailBody == [detail |-> "Unable to log in with provided credentials."]
NoDetailBody == [error |-> "invalid_grant"]
ValidatedBody(id) == [id |-> id, status |-> "validated"]

\* what the token endpoint (login_url) may answer to a POST
TokenReplies ==
    {NoReply,
     Reply(200, TRUE, MfaBody),
     Reply(200, TRUE, TokenBodyNoRefresh("tokA")),
     Reply(200, TRUE, TokenBodyNoType("tokA", "refA")),
     Reply(200, TRUE, EmptyDict),
     Reply(200, FALSE, EmptyDict),
     Reply(400, TRUE, DetailBody),
     Reply(400, TRUE, NoDetailBody),
     Reply(500, TRUE, DetailBody)}
    \cup {Reply(200, TRUE, TokenBody(at, rt)) : at \in AccessTokens, rt \in RefreshTokens}
    \cup {Reply(400, TRUE, ChallengeBody(id, n)) : id \in ChallengeIds, n \in 1..MaxAttempts}

\* what the challenge endpoint (challenge_url(id)) may answer to a POST
ChallengeReplies(id) ==
    {NoReply,
     Reply(200, TRUE, ValidatedBody(id)),
     Reply(200, FALSE, EmptyDict),
     Reply(500, TRUE, DetailBody)}
    \cup {Reply(400, TRUE, ChallengeBody(id, n)) : n \in 0..MaxAttempts}

\* what positions_url may answer to the probe GET
ProbeReplies ==
    {NoReply} \cup {Reply(s, TRUE, EmptyDict) : s \in {200, 204, 401, 500}}

\* a transport that answers also after close()
Outcomes_reopened(replies) == replies

\* a request on a closed aiohttp session raises before anything is sent
Outcomes(replies) == IF SESSION = "closed" THEN {NoReply} ELSE replies

\* the status list of request_post
AcceptedStatus == {200, 201, 202, 204, 301, 302, 303, 304, 307, 400, 401, 402, 403}

\* request_post(..., json=False, jsonify_data=True): every exception is caught
\* and logged, data stays None
request_post(reply) ==
    IF ~reply.got THEN None
    ELSE IF reply.status \notin AcceptedStatus THEN None
    ELSE IF ~reply.parsable THEN None
    ELSE reply.body

\* request_post(..., json=False, jsonify_data=False): the response object, or
\* None when SESSION.post itself raised
request_post_res(reply) == IF reply.got THEN reply ELSE None

\* variant: the probe accepted only on status 200
probe_ok_only200(reply) == reply.got /\ reply.status = 200

\* request_get(..., jsonify_data=False) followed by res.raise_for_status():
\* TRUE when neither raises
probe_ok(reply) == reply.got /\ reply.status < 400

\* ------------------------------------------------------------ login: results
Returned(detail) == [op |-> "login", kind |-> "returned", error |-> "", detail |-> detail]
Raised(error, detail) == [op |-> "login", kind |-> "raised", error |-> error, detail |-> detail]
NoOutcome == [op |-> "none", kind |-> "none", error |-> "", detail |-> ""]

CachedDetail == "logged in using authentication in robinhood.pickle"
NewDetail == "logged in with brand new authentication code."
ConnectivityDetail == "Error: Trouble connecting to robinhood API. Check internet connection."

Sent == [sent |-> TRUE]

\* generated: the token generate_device_token made for the call (line 84);
\* device_token: payload['device_token']
NoCall ==
    [store_session |-> TRUE, generated |-> "", device_token |-> "", challenge_id |-> ""]

NoHist ==
    [filePre |-> NoFile,   \* the credential file when login was called
     loggedPre |-> FALSE,  \* LOGGED_IN when login was called
     read |-> FALSE,       \* the credential file was opened for reading
     probe |-> Nothing,    \* the probe GET: Nothing, Sent, or the reply it got
     grants |-> 0,         \* POSTs to login_url
     grantGot |-> "none",  \* the first POST to login_url got a response: none, yes, no
     mfaSent |-> 0,        \* MFA code submissions
     mfaLog |-> <<>>,      \* the server's verdict on each MFA code submitted
     chalSent |-> 0,       \* codes posted to the challenge endpoint
     chalLast |-> Nothing, \* what the last respond_to_challenge returned
     retries |-> 0,        \* re-sends of the password grant after the challenge
     final |-> Nothing]    \* data as tested at line 182

\* the server's verdict on a submitted MFA code, read off its answer
CorrectCode(reply) ==
    /\ reply.got /\ reply.status = 200 /\ reply.parsable
    /\ reply.body \in {TokenBody(at, rt) : at \in AccessTokens, rt \in RefreshTokens}
WrongCode(reply) == reply.got /\ reply.status \in 400..499
Verdict(reply) ==
    IF CorrectCode(reply) THEN "correct" ELSE IF WrongCode(reply) THEN "wrong" ELSE "other"

\* ------------------------------------------------------------ login: branches
\* line 145-146: the file exists and the caller opted out of persistence
remove_pickle(file, store_session) ==
    IF exists(file) /\ ~store_session THEN NoFile ELSE file

\* variant: the MFA loop repeats only on a status request_post rejects
mfa_retry_rejected(res) == res.status \notin AcceptedStatus

\* `while res.status != 200` (lines 164-168)
mfa_retry(res) == res.status # 200

\* variant: the challenge loop ignores the remaining attempts
challenge_retry_any(res) == Has(res, "challenge")

\* `while 'challenge' in res and res['challenge']['remaining_attempts'] > 0`
challenge_retry(res) == Has(res, "challenge") /\ res.challenge.remaining_attempts > 0

\* variant: the pickle is written whatever the caller asked
persists_always(store_session) == TRUE

\* `if store_session:` guarding the write of the pickle (line 187)
persists(store_session) == store_session

\* variant: the payload keeps the token generated for the attempt
payload_device_token_fresh(device_token, file) == device_token

\* lines 126-127: payload['device_token'] = pickle_data['device_token']
payload_device_token(device_token, file) == file.device_token

Effect(l, h, p, o) == [LOGGED_IN |-> l, HEADERS |-> h, pickle |-> p, outcome |-> o]

\* lines 182-197 on the final data, from login flag l, headers h and file p;
\* opening the file 'wb' truncates it before pickle.dumps builds its argument
login_finish(data, store_session, device_token, l, h, p) ==
    IF IsNone(data) THEN Effect(l, h, p, Raised("TypeError", "NoneType is not iterable"))
    ELSE IF Has(data, "access_token") THEN
        IF ~Has(data, "token_type") THEN Effect(l, h, p, Raised("KeyError", "token_type"))
        ELSE LET h2 == update_session(h, "Authorization",
                                      format(data.token_type, data.access_token))
             IN IF persists(store_session) THEN
                    IF Has(data, "refresh_token")
                    THEN Effect(TRUE, h2,
                                TokenSet(data.token_type, data.access_token,
                                         data.refresh_token, device_token),
                                Returned(NewDetail))
                    ELSE Effect(TRUE, h2, Garbage, Raised("KeyError", "refresh_token"))
                ELSE Effect(TRUE, h2, p, Returned(NewDetail))
    ELSE IF Has(data, "detail") THEN Effect(l, h, p, Raised("Exception", data.detail))
    ELSE Effect(l, h, p, Raised("KeyError", "detail"))

\* the call ends with effect e
Finish(e) ==
    /\ LOGGED_IN' = e.LOGGED_IN
    /\ HEADERS' = e.HEADERS
    /\ pickle' = e.pickle
    /\ outcome' = e.outcome
    /\ pc' = "idle"

\* the call ends by raising, the session and the file as they are
Raise(error, detail) ==
    /\ UNCHANGED <<LOGGED_IN, HEADERS, pickle>>
    /\ outcome' = Raised(error, detail)
    /\ pc' = "idle"

\* lines 140-144: the bare except of the cached-token attempt, then line 157
except_handler(c, hs) ==
    /\ call' = c
    /\ IF HasAttr("loger") THEN
          /\ LOGGED_IN' = FALSE
          /\ HEADERS' = update_session(HEADERS, "Authorization", NoneValue)
          /\ pickle' = pickle
          /\ hist' = [hs EXCEPT !.grants = 1]
          /\ pc' = "grant"
          /\ outcome' = NoOutcome
       ELSE
          /\ hist' = hs
          /\ Raise("AttributeError", "loger")

\* ------------------------------------------------------------ login: steps
\* lines 84-157: up to the first await on the network (probe GET or grant POST)
login_call(store_session, device_token) ==
    /\ pc = "idle"
    /\ logins < MaxLogins
    /\ logins' = logins + 1
    /\ UNCHANGED <<SESSION, aiofiles_os, req, peer, tasks>>
    /\ LET c == [store_session |-> store_session, generated |-> device_token,
                 device_token |-> device_token, challenge_id |-> ""]
           hs == [NoHist EXCEPT !.filePre = pickle, !.loggedPre = LOGGED_IN]
       IN IF ~dir_exists(pickle) /\ ~aiofiles_os THEN
              \* line 89: aiofiles.os does not resolve
              /\ call' = c
              /\ hist' = hs
              /\ Raise("AttributeError", "os")
          ELSE IF exists(pickle) /\ store_session THEN
              IF loads_ok(pickle) THEN
                  /\ LOGGED_IN' = TRUE
                  /\ HEADERS' = update_session(HEADERS, "Authorization",
                                               format(pickle.token_type, pickle.access_token))
                  /\ pickle' = pickle
                  /\ call' = [c EXCEPT !.device_token =
                                          payload_device_token(device_token, pickle)]
                  /\ hist' = [hs EXCEPT !.read = TRUE, !.probe = Sent]
                  /\ pc' = "probe"
                  /\ outcome' = NoOutcome
              ELSE except_handler(c, [hs EXCEPT !.read = TRUE])
          ELSE IF exists(pickle) /\ ~aiofiles_os THEN
              \* line 146: aiofiles.os does not resolve
              /\ call' = c
              /\ hist' = hs
              /\ Raise("AttributeError", "os")
          ELSE
              /\ pickle' = remove_pickle(mkdir(pickle), store_session)
              /\ UNCHANGED <<LOGGED_IN, HEADERS>>
              /\ call' = c
              /\ hist' = [hs EXCEPT !.grants = 1]
              /\ pc' = "grant"
              /\ outcome' = NoOutcome

\* lines 133-144: the probe GET completes
login_probe(reply) ==
    /\ pc = "probe"
    /\ reply \in Outcomes(ProbeReplies)
    /\ UNCHANGED <<SESSION, logins, aiofiles_os, req, peer, tasks>>
    /\ IF probe_ok(reply) THEN
          /\ UNCHANGED <<LOGGED_IN, HEADERS, pickle, call>>
          /\ hist' = [hist EXCEPT !.probe = reply]
          /\ outcome' = Returned(CachedDetail)
          /\ pc' = "idle"
       ELSE except_handler(call, [hist EXCEPT !.probe = reply])

\* lines 157-197: the first password-grant POST completes
login_grant(reply) ==
    /\ pc = "grant"
    /\ reply \in Outcomes(TokenReplies)
    /\ UNCHANGED <<SESSION, logins, aiofiles_os, req, peer, tasks>>
    /\ LET data == request_post(reply)
           hs == [hist EXCEPT !.grantGot = IF reply.got THEN "yes" ELSE "no"]
       IN IF ~Truthy(data) THEN
              /\ call' = call
              /\ hist' = hs
              /\ Raise("Exception", ConnectivityDetail)
          ELSE IF Has(data, "mfa_required") THEN
              /\ UNCHANGED <<LOGGED_IN, HEADERS, pickle, call, outcome>>
              /\ hist' = [hs EXCEPT !.mfaSent = 1, !.grants = @ + 1]
              /\ pc' = "mfa"
          ELSE IF Has(data, "challenge") THEN
              /\ UNCHANGED <<LOGGED_IN, HEADERS, pickle, outcome>>
              /\ call' = [call EXCEPT !.challenge_id = data.challenge.id]
              /\ hist' = [hs EXCEPT !.chalSent = 1]
              /\ pc' = "challenge"
          ELSE
              /\ call' = call
              /\ hist' = [hs EXCEPT !.final = data]
              /\ Finish(login_finish(data, call.store_session, call.device_token,
                                     LOGGED_IN, HEADERS, pickle))

\* lines 163-169 and 182-197: an MFA code submission completes
login_mfa(reply) ==
    /\ pc = "mfa"
    /\ reply \in Outcomes(TokenReplies)
    /\ UNCHANGED <<SESSION, logins, call, aiofiles_os, req, peer, tasks>>
    /\ LET res == request_post_res(reply)
           hs == [hist EXCEPT !.mfaLog = Append(@, Verdict(reply))]
       IN IF IsNone(res) THEN
              /\ hist' = hs
              /\ Raise("AttributeError", "status")
          ELSE IF mfa_retry(res) THEN
              /\ hist.mfaSent < MaxMfa
              /\ UNCHANGED <<LOGGED_IN, HEADERS, pickle, outcome>>
              /\ hist' = [hs EXCEPT !.mfaSent = @ + 1, !.grants = @ + 1]
              /\ pc' = "mfa"
          ELSE IF ~res.parsable THEN
              /\ hist' = hs
              /\ Raise("JSONDecodeError", "")
          ELSE
              /\ hist' = [hs EXCEPT !.final = res.body]
              /\ Finish(login_finish(res.body, call.store_session, call.device_token,
                                     LOGGED_IN, HEADERS, pickle))

\* lines 173-180: a code posted to the challenge endpoint completes
login_challenge(reply) ==
    /\ pc = "challenge"
    /\ reply \in Outcomes(ChallengeReplies(call.challenge_id))
    /\ UNCHANGED <<SESSION, logins, call, aiofiles_os, req, peer, tasks>>
    /\ LET res == request_post(reply)
           hs == [hist EXCEPT !.chalLast = res]
       IN IF IsNone(res) THEN
              /\ hist' = hs
              /\ Raise("TypeError", "NoneType is not iterable")
          ELSE IF challenge_retry(res) THEN
              /\ hist.chalSent < MaxChallenge
              /\ UNCHANGED <<LOGGED_IN, HEADERS, pickle, outcome>>
              /\ hist' = [hs EXCEPT !.chalSent = @ + 1]
              /\ pc' = "challenge"
          ELSE
              /\ HEADERS' = update_session(HEADERS, "X-ROBINHOOD-CHALLENGE-RESPONSE-ID",
                                           <<call.challenge_id>>)
              /\ UNCHANGED <<LOGGED_IN, pickle, outcome>>
              /\ hist' = [hs EXCEPT !.retries = @ + 1, !.grants = @ + 1]
              /\ pc' = "retry"

\* lines 180-197: the re-sent password-grant POST completes
login_retry(reply) ==
    /\ pc = "retry"
    /\ reply \in Outcomes(TokenReplies)
    /\ UNCHANGED <<SESSION, logins, call, aiofiles_os, req, peer, tasks>>
    /\ LET data == request_post(reply)
       IN /\ hist' = [hist EXCEPT !.final = data]
          /\ Finish(login_finish(data, call.store_session, call.device_token,
                                 LOGGED_IN, HEADERS, pickle))

\* ------------------------------------------------------------ request_get
\* Python values a GET handles: a list is List(<<item, ...>>), a dict is a
\* function on its keys, None is None, a URL is Url(name).
List(items) == [list |-> items]
IsList(v) == Has(v, "list")
Item(id) == [id |-> id]
Url(name) == [url |-> name]

Urls == {Url("p1"), Url("p2"), Url("p3")}
ResultLists == {<<Item("r1")>>, <<Item("r2"), Item("r1")>>}

\* a response: its status, what `await res.json()` does ("ok": returns body,
\* otherwise the exception it raises) and the parsed body
Response(status, json, body) ==
    [got |-> TRUE, error |-> "", status |-> status, json |-> json, body |-> body]

\* no response: SESSION.get raises error
NoResponse(error) ==
    [got |-> FALSE, error |-> error, status |-> 0, json |-> "ok", body |-> EmptyDict]

\* bodies of a paginated endpoint
Page(results, next) == [results |-> List(results), next |-> next]
PageNoNext(results) == [results |-> List(results)]
PageNoResults == [next |-> None]
ListBody == List(<<Item("r1")>>)

\* what a URL may answer to a GET
GetReplies ==
    {NoResponse("ClientConnectorError"),
     Response(404, "ok", [detail |-> "Not found."]),
     Response(200, "ContentTypeError", EmptyDict),
     Response(200, "JSONDecodeError", EmptyDict),
     Response(200, "ok", PageNoResults),
     Response(200, "ok", PageNoNext(<<Item("r1")>>)),
     Response(200, "ok", ListBody),
     Response(200, "ok", Page(<<>>, None))}
    \cup {Response(200, "ok", Page(r, n)) : r \in ResultLists, n \in {None} \cup Urls}

\* a request on a closed aiohttp session raises RuntimeError('Session is closed')
GetOutcomes(session, replies) ==
    IF session = "closed" THEN {NoResponse("RuntimeError")} ELSE replies

\* the exception raised inside `async with client.SESSION.get(...) as res:` with
\* res.raise_for_status() and res.json(); "" when none is
fetch_error(reply) ==
    IF ~reply.got THEN reply.error
    ELSE IF reply.status >= 400 THEN "ClientResponseError"
    ELSE IF reply.json # "ok" THEN reply.json
    ELSE ""

\* `except (aiohttp.ClientResponseError, AttributeError)` (line 253);
\* ContentTypeError is a subclass of ClientResponseError
Caught == {"ClientResponseError", "ContentTypeError", "AttributeError"}

Return(value) == [kind |-> "returned", value |-> value]
Throw(error) == [kind |-> "raised", error |-> error]

NoReq == [fn |-> "none", pc |-> "idle"]

\* no second instance, no concurrent calls
NoPeer == [none |-> TRUE]
NoTasks == <<>>

\* lines 243-246: the value returned when the first fetch fails
sentinel(dataType) ==
    IF dataType = "results" \/ dataType = "pagination" THEN List(<<None>>) ELSE None

\* the frame of request_get when its first GET has been issued (lines 243-250)
get_start(url, dataType, jsonify_data) ==
    [fn |-> "request_get", pc |-> "first", dataType |-> dataType,
     jsonify_data |-> jsonify_data, data |-> sentinel(dataType), nextData |-> Nothing,
     urls |-> <<url>>, replies |-> <<>>, result |-> Nothing]

\* the call ends
Done(g, result) == [g EXCEPT !.pc = "done", !.result = result]

\* data['results'] can be evaluated: "ok", or the exception it raises
subscript_results(data) ==
    IF IsNone(data) \/ IsList(data) THEN "TypeError"
    ELSE IF ~Has(data, "results") THEN "KeyError"
    ELSE "ok"

\* `while nextData['next']:` (lines 276-280) with data accumulated so far
get_loop(g, data, nextData) ==
    IF ~Has(nextData, "next") THEN Done([g EXCEPT !.data = data, !.nextData = nextData],
                                        Throw("KeyError"))
    ELSE IF IsNone(nextData.next)
    THEN Done([g EXCEPT !.data = data, !.nextData = nextData], Return(data))
    ELSE [g EXCEPT !.pc = "page", !.data = data, !.nextData = nextData,
                   !.urls = Append(@, nextData.next)]

\* variant: indexzero does not handle an empty list
get_indexzero_unguarded(data) ==
    IF subscript_results(data) = "TypeError" THEN Throw("TypeError")
    ELSE IF subscript_results(data) = "KeyError" THEN Return(None)
    ELSE IF Len(data.results.list) = 0 THEN Throw("IndexError")
    ELSE Return(data.results.list[1])

\* lines 290-297: data['results'][0]
get_indexzero(data) ==
    IF subscript_results(data) = "TypeError" THEN Throw("TypeError")
    ELSE IF subscript_results(data) = "KeyError" THEN Return(None)
    ELSE IF Len(data.results.list) = 0 THEN Return(None)
    ELSE Return(data.results.list[1])

\* variant: results mode hands back the whole body
get_results_whole(data) ==
    IF subscript_results(data) = "TypeError" THEN Throw("TypeError")
    ELSE IF subscript_results(data) = "KeyError" THEN Return(List(<<None>>))
    ELSE Return(data)

\* lines 261-266: data['results']
get_results(data) ==
    IF subscript_results(data) = "TypeError" THEN Throw("TypeError")
    ELSE IF subscript_results(data) = "KeyError" THEN Return(List(<<None>>))
    ELSE Return(data.results)

\* lines 260-299 on the parsed body of the first response
get_filter(g, data) ==
    CASE g.dataType = "results" -> Done([g EXCEPT !.data = data], get_results(data))
      [] g.dataType = "pagination" ->
            IF subscript_results(data) = "TypeError"
            THEN Done([g EXCEPT !.data = data, !.nextData = data], Throw("TypeError"))
            ELSE IF subscript_results(data) = "KeyError"
            THEN Done([g EXCEPT !.data = data, !.nextData = data], Return(List(<<None>>)))
            ELSE get_loop(g, data.results, data)
      [] g.dataType = "indexzero" -> Done([g EXCEPT !.data = data], get_indexzero(data))
      [] OTHER -> Done([g EXCEPT !.data = data], Return(data))

\* lines 248-258 and on: the response to the first GET
get_first(g, reply) ==
    LET h == [g EXCEPT !.replies = Append(@, reply)]
    IN IF g.jsonify_data THEN
           IF fetch_error(reply) = "" THEN get_filter(h, reply.body)
           ELSE IF fetch_error(reply) \in Caught THEN Done(h, Return(g.data))
           ELSE Done(h, Throw(fetch_error(reply)))
       ELSE IF reply.got THEN Done(h, Return(reply))
       ELSE Done(h, Throw(reply.error))

\* variant: a page's records are put in front of the accumulated ones
extend_front(data, results) == List(results.list \o data.list)

\* lines 288-289: for item in nextData['results']: data.append(item)
extend(data, results) == List(data.list \o results.list)

\* lines 279-289 and the loop test: the response to the GET of a further page
get_page(g, reply) ==
    LET h == [g EXCEPT !.replies = Append(@, reply)]
    IN IF fetch_error(reply) # "" THEN Done(h, Return(g.data))
       ELSE IF subscript_results(reply.body) # "ok"
       THEN Done([h EXCEPT !.nextData = reply.body], Throw(subscript_results(reply.body)))
       ELSE get_loop(h, extend(g.data, reply.body.results), reply.body)

\* request_get is called and issues its first GET
request_get_call(url, dataType, jsonify_data) ==
    /\ req.pc \in {"idle", "done"}
    /\ req' = get_start(url, dataType, jsonify_data)
    /\ UNCHANGED <<LOGGED_IN, HEADERS, SESSION, pickle, pc, call, hist, outcome,
                   logins, aiofiles_os, peer, tasks>>

\* the first GET completes
request_get_first(reply) ==
    /\ req.fn = "request_get" /\ req.pc = "first"
    /\ reply \in GetOutcomes(SESSION, GetReplies)
    /\ LET g == get_first(req, reply)
       IN /\ g.pc = "page" => Len(g.urls) <= MaxFetch
          /\ req' = g
    /\ UNCHANGED <<LOGGED_IN, HEADERS, SESSION, pickle, pc, call, hist, outcome,
                   logins, aiofiles_os, peer, tasks>>

\* the GET of a further page completes
request_get_page(reply) ==
    /\ req.fn = "request_get" /\ req.pc = "page"
    /\ reply \in GetOutcomes(SESSION, GetReplies)
    /\ LET g == get_page(req, reply)
       IN /\ g.pc = "page" => Len(g.urls) <= MaxFetch
          /\ req' = g
    /\ UNCHANGED <<LOGGED_IN, HEADERS, SESSION, pickle, pc, call, hist, outcome,
                   logins, aiofiles_os, peer, tasks>>

\* ------------------------------------------------------------ request_post
JsonType == <<"application/json">>

\* what a URL may answer to a POST
PostReplies ==
    {NoReply}
    \cup {Reply(s, FALSE, EmptyDict) : s \in AcceptedStatus \cup {404, 500}}
    \cup {Reply(s, TRUE, b) : s \in AcceptedStatus \cup {404, 500},
                              b \in {EmptyDict, DetailBody}}

\* lines 318-323, 329: request_post is called and issues its POST; sent is the
\* Content-Type the POST carries
request_post_call(json, jsonify_data) ==
    /\ req.pc \in {"idle", "done"}
    /\ HEADERS' = IF json THEN update_session(HEADERS, "Content-Type", JsonType) ELSE HEADERS
    /\ req' = [fn |-> "request_post", pc |-> "post", json |-> json,
               jsonify_data |-> jsonify_data, sent |-> HEADERS'["Content-Type"],
               reply |-> Nothing, result |-> Nothing]
    /\ UNCHANGED <<LOGGED_IN, SESSION, pickle, pc, call, hist, outcome, logins,
                   aiofiles_os, peer, tasks>>

\* lines 323-340: the POST completes
request_post_return(reply) ==
    /\ req.fn = "request_post" /\ req.pc = "post"
    /\ reply \in Outcomes(PostReplies)
    /\ HEADERS' = IF req.json /\ reply.got
                  THEN update_session(HEADERS, "Content-Type", FormEncoded)
                  ELSE HEADERS
    /\ req' = [req EXCEPT !.pc = "done", !.reply = reply,
                          !.result = Return(IF req.jsonify_data THEN request_post(reply)
                                            ELSE request_post_res(reply))]
    /\ UNCHANGED <<LOGGED_IN, SESSION, pickle, pc, call, hist, outcome, logins,
                   aiofiles_os, peer, tasks>>

\* ------------------------------------------------------------ request_delete
\* what a URL may answer to a DELETE
DeleteReplies ==
    {NoResponse("ClientConnectorError"),
     Response(404, "ok", [detail |-> "Not found."]),
     Response(500, "ok", EmptyDict),
     Response(204, "ContentTypeError", EmptyDict),
     Response(200, "JSONDecodeError", EmptyDict),
     Response(200, "ok", EmptyDict),
     Response(200, "ok", [detail |-> "deleted"])}

\* request_delete catching only what request_get catches
request_delete_narrow(reply) ==
    IF fetch_error(reply) = "" THEN Return(reply.body)
    ELSE IF fetch_error(reply) \in Caught THEN Return(None)
    ELSE Throw(fetch_error(reply))

\* lines 350-359: `except Exception` turns every failure into data = None
request_delete(reply) ==
    IF fetch_error(reply) = "" THEN Return(reply.body) ELSE Return(None)

\* request_delete(client, url) is called: the DELETE is issued with client.HEADERS
request_delete_call ==
    /\ req.pc \in {"idle", "done"}
    /\ req' = [fn |-> "request_delete", pc |-> "delete", sent |-> HEADERS,
               reply |-> Nothing, result |-> Nothing]
    /\ UNCHANGED <<LOGGED_IN, HEADERS, SESSION, pickle, pc, call, hist, outcome, logins,
                   aiofiles_os, peer, tasks>>

\* the DELETE is answered, or fails, and request_delete returns
request_delete_return(reply) ==
    /\ req.fn = "request_delete" /\ req.pc = "delete"
    /\ reply \in GetOutcomes(SESSION, DeleteReplies)
    /\ req' = [req EXCEPT !.pc = "done", !.reply = reply, !.result = request_delete(reply)]
    /\ UNCHANGED <<LOGGED_IN, HEADERS, SESSION, pickle, pc, call, hist, outcome, logins,
                   aiofiles_os, peer, tasks>>

\* ------------------------------------------------------------ filter_data
\* the keyword `info` of filter_data: None or a key
Key(name) == [key |-> name]
Infos == {None, Key("a"), Key("b")}

\* the dicts an endpoint answers with, and the data request_get hands over
Dicts == {[a |-> Item("1")], [a |-> Item("2"), b |-> Item("3")], [b |-> Item("4")]}
DictLists == UNION {[1..n -> Dicts] : n \in 1..MaxRecords}
FilterData == {None, List(<<None>>), List(<<>>)} \cup Dicts \cup {List(l) : l \in DictLists}

\* a comprehension that stops after the first record
comprehension_first(data, key) ==
    IF ~Has(data[1], key) THEN Throw("KeyError") ELSE Return(List(<<data[1][key]>>))

\* line 166: [x[info] for x in data]; x[info] raises KeyError on a record
\* without the key
comprehension(data, key) ==
    IF \E i \in 1..Len(data) : ~Has(data[i], key) THEN Throw("KeyError")
    ELSE Return(List([i \in 1..Len(data) |-> data[i][key]]))

\* lines 164-175 with `info is not None` dropped: the keyword is always looked up
filter_info_required(data, compareDict, noneType, info) ==
    IF ~IsNone(info) /\ Has(compareDict, info.key)
    THEN IF IsList(data) THEN comprehension(data.list, info.key)
         ELSE Return(data[info.key])
    ELSE Return(noneType)

\* lines 164-175: the lookup of info in data, compareDict and noneType set
filter_info(data, compareDict, noneType, info) ==
    IF ~IsNone(info)
    THEN IF Has(compareDict, info.key)
         THEN IF IsList(data) THEN comprehension(data.list, info.key)
              ELSE Return(data[info.key])
         ELSE Return(noneType)
    ELSE Return(data)

\* lines 145-175
filter_data(data, info) ==
    IF IsNone(data) THEN Return(data)
    ELSE IF IsList(data) /\ data.list = <<None>> THEN Return(List(<<>>))
    ELSE IF IsList(data)
         THEN IF Len(data.list) = 0 THEN Return(List(<<>>))
              ELSE filter_info(data, data.list[1], List(<<>>), info)
    ELSE filter_info(data, data, None, info)

\* filter_data(client, data, info) is called and returns or raises
filter_data_call(data, info) ==
    /\ req.pc \in {"idle", "done"}
    /\ req' = [fn |-> "filter_data", pc |-> "done", data |-> data, info |-> info,
               result |-> filter_data(data, info)]
    /\ UNCHANGED <<LOGGED_IN, HEADERS, SESSION, pickle, pc, call, hist, outcome, logins,
                   aiofiles_os, peer, tasks>>

\* ------------------------------------------------------------ login_required
\* functions decorated with @login_required
LoginRequired == {"logout", "get_latest_notification"}

\* variant: the wrapper calls the function whatever the login flag
login_required_unchecked(logged_in) == TRUE

\* helper.py lines 12-15: the wrapper calls the function iff client.LOGGED_IN
login_required(logged_in) == logged_in

\* '{} can only be called when logged in'.format(func.__name__)
format_name(func) ==
    CASE func = "logout" -> "logout can only be called when logged in"
      [] func = "get_latest_notification" ->
            "get_latest_notification can only be called when logged in"

\* how a call of func ended: by a return, or by raising error
Ended(func, kind, error, detail) ==
    [op |-> func, kind |-> kind, error |-> error, detail |-> detail]

\* the exception the wrapper raises (lines 13-14)
PreconditionError(func) == Ended(func, "raised", "Exception", format_name(func))

\* what notifications_url may answer to a GET
NotificationReplies ==
    {NoResponse("ClientConnectorError"),
     Response(401, "ok", DetailBody),
     Response(200, "JSONDecodeError", EmptyDict),
     Response(200, "ok", [last_viewed_at |-> "t1"])}

\* account.py lines 250-258: the wrapper, then request_get(client, url) is called
get_latest_notification ==
    /\ pc = "idle"
    /\ UNCHANGED <<LOGGED_IN, HEADERS, SESSION, pickle, call, hist, logins,
                   aiofiles_os, peer, tasks>>
    /\ IF login_required(LOGGED_IN) THEN
          /\ req' = get_start(Url("notifications"), "regular", TRUE)
          /\ pc' = "get_latest_notification"
          /\ outcome' = Ended("get_latest_notification", "none", "", "")
       ELSE
          /\ UNCHANGED <<req, pc>>
          /\ outcome' = PreconditionError("get_latest_notification")

\* account.py lines 258-259: request_get returns or raises, and so does the call
get_latest_notification_return(reply) ==
    /\ pc = "get_latest_notification"
    /\ reply \in GetOutcomes(SESSION, NotificationReplies)
    /\ UNCHANGED <<LOGGED_IN, HEADERS, SESSION, pickle, call, hist, logins,
                   aiofiles_os, peer, tasks>>
    /\ LET g == get_first(req, reply)
       IN outcome' = Ended("get_latest_notification", g.result.kind,
                           IF g.result.kind = "raised" THEN g.result.error ELSE "", "")
    /\ req' = NoReq
    /\ pc' = "idle"

\* ------------------------------------------------------------ logout
\* variant: logout leaves the Authorization header as it is
logout_keeps_header ==
    /\ pc = "idle"
    /\ UNCHANGED <<pickle, pc, call, hist, logins, aiofiles_os, req, peer, tasks>>
    /\ IF LOGGED_IN THEN
          /\ LOGGED_IN' = FALSE
          /\ HEADERS' = HEADERS
          /\ SESSION' = "closed"
          /\ outcome' = [op |-> "logout", kind |-> "returned", error |-> "", detail |-> ""]
       ELSE
          /\ UNCHANGED <<LOGGED_IN, HEADERS, SESSION>>
          /\ outcome' = [op |-> "logout", kind |-> "raised", error |-> "Exception",
                         detail |-> "logout can only be called when logged in"]

\* login_required, then lines 207-209
logout ==
    /\ pc = "idle"
    /\ UNCHANGED <<pickle, pc, call, hist, logins, aiofiles_os, req, peer, tasks>>
    /\ IF login_required(LOGGED_IN) THEN
          /\ LOGGED_IN' = FALSE
          /\ HEADERS' = update_session(HEADERS, "Authorization", NoneValue)
          /\ SESSION' = "closed"
          /\ outcome' = [op |-> "logout", kind |-> "returned", error |-> "", detail |-> ""]
       ELSE
          /\ UNCHANGED <<LOGGED_IN, HEADERS, SESSION>>
          /\ outcome' = PreconditionError("logout")

\* ------------------------------------------------------------ specification
Init ==
    /\ LOGGED_IN = FALSE
    /\ HEADERS = InitialHeaders
    /\ SESSION = "open"
    /\ pickle \in {NoDir, NoFile, Garbage} \cup TokenSets
    /\ pc = "idle"
    /\ call = NoCall
    /\ hist = NoHist
    /\ outcome = NoOutcome
    /\ logins = 0
    /\ aiofiles_os \in BOOLEAN
    /\ req = NoReq
    /\ peer = NoPeer
    /\ tasks = NoTasks

Next ==
    \/ \E ss \in BOOLEAN, dt \in DeviceTokens : login_call(ss, dt)
    \/ \E r \in ProbeReplies : login_probe(r)
    \/ \E r \in TokenReplies : login_grant(r)
    \/ \E r \in TokenReplies : login_mfa(r)
    \/ \E r \in ChallengeReplies(call.challenge_id) : login_challenge(r)
    \/ \E r \in TokenReplies : login_retry(r)
    \/ logout
    \/ get_latest_notification
    \/ \E r \in NotificationReplies \cup {NoResponse("RuntimeError")} :
          get_latest_notification_return(r)

Spec == Init /\ [][Next]_vars

\* ------------------------------------------------------------ helper calls
DataTypes == {"regular", "results", "pagination", "indexzero"}

\* a client, its session open or closed, on which the helpers are called one
\* call at a time
InitHelper ==
    /\ LOGGED_IN = FALSE
    /\ HEADERS = InitialHeaders
    /\ SESSION \in {"open", "closed"}
    /\ pickle = NoFile
    /\ pc = "idle"
    /\ call = NoCall
    /\ hist = NoHist
    /\ outcome = NoOutcome
    /\ logins = 0
    /\ aiofiles_os = TRUE
    /\ req = NoReq
    /\ peer = NoPeer
    /\ tasks = NoTasks

NextHelper ==
    \/ \E url \in {Url("p1")}, dataType \in DataTypes, jsonify_data \in BOOLEAN :
          request_get_call(url, dataType, jsonify_data)
    \/ \E r \in GetReplies \cup {NoResponse("RuntimeError")} : request_get_first(r)
    \/ \E r \in GetReplies \cup {NoResponse("RuntimeError")} : request_get_page(r)
    \/ \E json \in BOOLEAN, jsonify_data \in BOOLEAN : request_post_call(json, jsonify_data)
    \/ \E r \in PostReplies : request_post_return(r)
    \/ request_delete_call
    \/ \E data \in FilterData, info \in Infos : filter_data_call(data, info)
    \/ \E r \in DeleteReplies \cup {NoResponse("RuntimeError")} : request_delete_return(r)

SpecHelper == InitHelper /\ [][NextHelper]_vars

\* ------------------------------------------------------------ two clients
\* Attribute lookup on an instance: its own attribute when it has one, the
\* class attribute otherwise.  HEADERS is assigned in the class body only
\* (client.py lines 96-104) and update_session stores into that dict (line 139);
\* LOGGED_IN is assigned on the instance by set_login_state (line 128).
\* In this specification HEADERS is the dict of the class, and LOGGED_IN and
\* SESSION are the attributes of the first instance.
headers_of(instance) == IF Has(instance, "HEADERS") THEN instance.HEADERS ELSE HEADERS
logged_in_of(instance) == IF Has(instance, "LOGGED_IN") THEN instance.LOGGED_IN ELSE FALSE

\* AsyncIORobinStocksClient() a second time: __init__ assigns logger and SESSION
peer_init ==
    /\ peer = NoPeer
    /\ peer' = [SESSION |-> "open", sent |-> Nothing]
    /\ UNCHANGED <<LOGGED_IN, HEADERS, SESSION, pickle, pc, call, hist, outcome, logins,
                   aiofiles_os, req, tasks>>

\* the second instance sends a request: headers=client.HEADERS (helper.py
\* lines 250, 323, 329, 351); the keys of the session's default headers are
\* all in client.HEADERS, whose values take precedence
peer_request ==
    /\ peer # NoPeer
    /\ peer.SESSION = "open"
    /\ peer' = [peer EXCEPT !.sent = headers_of(peer)]
    /\ UNCHANGED <<LOGGED_IN, HEADERS, SESSION, pickle, pc, call, hist, outcome, logins,
                   aiofiles_os, req, tasks>>

\* two clients in one process: the first logs in once, logs out and sends a
\* JSON POST, the second is constructed and sends requests between the calls
\* of the first
InitClients ==
    /\ LOGGED_IN = FALSE
    /\ HEADERS = InitialHeaders
    /\ SESSION = "open"
    /\ pickle \in {NoFile, TokenSet("Bearer", "tokA", "refA", "dev1")}
    /\ pc = "idle"
    /\ call = NoCall
    /\ hist = NoHist
    /\ outcome = NoOutcome
    /\ logins = 0
    /\ aiofiles_os = TRUE
    /\ req = NoReq
    /\ peer = NoPeer
    /\ tasks = NoTasks

NextClients ==
    \/ logins = 0 /\ req.pc = "idle" /\ login_call(TRUE, "dev1")
    \/ \E r \in ProbeReplies : login_probe(r)
    \/ \E r \in TokenReplies : login_grant(r)
    \/ \E r \in TokenReplies : login_mfa(r)
    \/ \E r \in ChallengeReplies(call.challenge_id) : login_challenge(r)
    \/ \E r \in TokenReplies : login_retry(r)
    \/ logout
    \/ pc = "idle" /\ req.pc = "idle" /\ request_post_call(TRUE, TRUE)
    \/ \E r \in {NoReply, Reply(200, TRUE, EmptyDict)} : request_post_return(r)
    \/ pc = "idle" /\ peer_init
    \/ pc = "idle" /\ peer_request

SpecClients == InitClients /\ [][NextClients]_vars

\* ------------------------------------------------------------ concurrent posts
\* request_post calls awaited together (asyncio.gather) on one client.  A task
\* runs without interruption from one await to the next: from its entry to the
\* await of the response (helper.py lines 319-323 or 329), the headers being
\* read when SESSION.post is called, and from the response to its return
\* (lines 324-340).
Tasks == 1..MaxTasks

TaskReplies == {NoReply, Reply(200, TRUE, EmptyDict), Reply(404, TRUE, DetailBody)}

\* task t enters request_post and suspends waiting for the response
task_post_call(t, json) ==
    /\ tasks[t].pc \in {"idle", "done"}
    /\ HEADERS' = IF json THEN update_session(HEADERS, "Content-Type", JsonType) ELSE HEADERS
    /\ tasks' = [tasks EXCEPT ![t] =
                    [fn |-> "request_post", pc |-> "post", json |-> json,
                     jsonify_data |-> TRUE, sent |-> HEADERS'["Content-Type"],
                     reply |-> Nothing, result |-> Nothing]]
    /\ UNCHANGED <<LOGGED_IN, SESSION, pickle, pc, call, hist, outcome, logins,
                   aiofiles_os, req, peer>>

\* task t is resumed with the response, or with the failure, and returns
task_post_return(t, reply) ==
    /\ tasks[t].pc = "post"
    /\ reply \in Outcomes(TaskReplies)
    /\ HEADERS' = IF tasks[t].json /\ reply.got
                  THEN update_session(HEADERS, "Content-Type", FormEncoded)
                  ELSE HEADERS
    /\ tasks' = [tasks EXCEPT ![t] =
                    [@ EXCEPT !.pc = "done", !.reply = reply,
                              !.result = Return(request_post(reply))]]
    /\ UNCHANGED <<LOGGED_IN, SESSION, pickle, pc, call, hist, outcome, logins,
                   aiofiles_os, req, peer>>

InitPosts ==
    /\ LOGGED_IN = FALSE
    /\ HEADERS = InitialHeaders
    /\ SESSION = "open"
    /\ pickle = NoFile
    /\ pc = "idle"
    /\ call = NoCall
    /\ hist = NoHist
    /\ outcome = NoOutcome
    /\ logins = 0
    /\ aiofiles_os = TRUE
    /\ req = NoReq
    /\ peer = NoPeer
    /\ tasks = [t \in Tasks |-> [NoReq EXCEPT !.fn = "request_post"]]

NextPosts ==
    \/ \E t \in Tasks, json \in BOOLEAN : task_post_call(t, json)
    \/ \E t \in Tasks, r \in TaskReplies : task_post_return(t, r)

SpecPosts == InitPosts /\ [][NextPosts]_vars

\* ------------------------------------------------------------ login, answered
\* A login call all of whose requests and prompts are answered.  The MFA loop
\* (lines 164-168) is split at its two waits, the input() prompt and the POST,
\* and the counts kept in hist stop at MaxMfa so that the loop is not cut short.

\* the response to an MFA submission has a status other than 200: the loop body
\* is entered and the next code is prompted for (lines 164-166)
login_mfa_wrong(reply) ==
    /\ pc = "mfa"
    /\ reply \in Outcomes(TokenReplies)
    /\ ~IsNone(request_post_res(reply))
    /\ mfa_retry(request_post_res(reply))
    /\ pc' = "mfa_prompt"
    /\ hist' = [hist EXCEPT !.mfaLog = IF Len(@) < MaxMfa
                                       THEN Append(@, Verdict(reply)) ELSE @]
    /\ UNCHANGED <<LOGGED_IN, HEADERS, SESSION, pickle, call, outcome, logins,
                   aiofiles_os, req, peer, tasks>>

\* the prompt is answered and the code is posted (lines 167-168)
login_mfa_prompt ==
    /\ pc = "mfa_prompt"
    /\ pc' = "mfa"
    /\ hist' = IF hist.mfaSent < MaxMfa
               THEN [hist EXCEPT !.mfaSent = @ + 1, !.grants = @ + 1]
               ELSE hist
    /\ UNCHANGED <<LOGGED_IN, HEADERS, SESSION, pickle, call, outcome, logins,
                   aiofiles_os, req, peer, tasks>>

\* the response to an MFA submission ends the loop: status 200, or no response
\* at all (res is None and res.status raises)
login_mfa_end(reply) ==
    /\ pc = "mfa"
    /\ IF IsNone(request_post_res(reply)) THEN TRUE ELSE ~mfa_retry(request_post_res(reply))
    /\ login_mfa(reply)

\* the attempts the challenge endpoint reported last; MaxAttempts, the most the
\* server grants, before its first response
remaining_attempts ==
    IF Has(hist.chalLast, "challenge") THEN hist.chalLast.challenge.remaining_attempts
    ELSE MaxAttempts

\* a server that lowers the remaining attempts with each wrong code
Lowers(reply) ==
    (reply.got /\ Has(reply.body, "challenge"))
    => reply.body.challenge.remaining_attempts < remaining_attempts

InitLive ==
    /\ LOGGED_IN = FALSE
    /\ HEADERS = InitialHeaders
    /\ SESSION = "open"
    /\ pickle = NoFile
    /\ pc = "idle"
    /\ call = NoCall
    /\ hist = NoHist
    /\ outcome = NoOutcome
    /\ logins = 0
    /\ aiofiles_os = TRUE
    /\ req = NoReq
    /\ peer = NoPeer
    /\ tasks = NoTasks

\* the steps that answer a request or a prompt of the running login call
LoginStep ==
    \/ \E r \in ProbeReplies : login_probe(r)
    \/ \E r \in TokenReplies : login_grant(r)
    \/ \E r \in TokenReplies : login_mfa_wrong(r)
    \/ login_mfa_prompt
    \/ \E r \in TokenReplies : login_mfa_end(r)
    \/ \E r \in ChallengeReplies(call.challenge_id) : Lowers(r) /\ login_challenge(r)
    \/ \E r \in TokenReplies : login_retry(r)

NextLive ==
    \/ \E store_session \in BOOLEAN : login_call(store_session, "dev1")
    \/ LoginStep

\* every request and every prompt of login is answered
SpecLive == InitLive /\ [][NextLive]_vars /\ WF_vars(LoginStep)

\* ------------------------------------------------------------ properties
\* the last call that finished on the client is the login call hist describes
LoginEnded == pc = "idle" /\ outcome.op = "login"

\* no other operation has been called since the login call hist describes
NoLogoutSince == outcome.op \in {"none", "login"}

\* the probe GET was answered with one of the given statuses
ProbeAnswered(statuses) ==
    /\ Has(hist.probe, "status")
    /\ hist.probe.got
    /\ hist.probe.status \in statuses

Authorization == IF Has(HEADERS, "Authorization") THEN HEADERS["Authorization"] ELSE <<>>

CachedAttemptFailed ==
    /\ hist.read
    /\ \/ hist.filePre = Garbage
       \/ Has(hist.probe, "got") /\ ~(hist.probe.got /\ hist.probe.status < 400)

AuthorizationCleared == Authorization \in {<<>>, <<"None">>}

HasToken(data) == Has(data, "access_token")

\* C2: with store_session, a stored TokenSet and a probe answered unauthorized,
\* login goes on to the password grant and, when the server then answers with an
\* access_token, returns normally with the TokenSet file rewritten to hold the
\* newly issued access token.
C2_ExpiredTokenFallsThrough ==
    (NoLogoutSince /\ call.store_session /\ hist.filePre \in TokenSets
        /\ ProbeAnswered({401}))
    => /\ hist.grants >= 1
       /\ (LoginEnded /\ HasToken(hist.final) /\ Has(hist.final, "token_type")
             /\ Has(hist.final, "refresh_token"))
          => /\ outcome = Returned(NewDetail)
             /\ pickle \in TokenSets
             /\ pickle.access_token = hist.final.access_token

\* C3: once the cached-token attempt has failed, and until a password grant has
\* succeeded, the login flag is false and the Authorization header is cleared.
C3_ProbeFailureClearsSession ==
    (NoLogoutSince /\ CachedAttemptFailed /\ ~(LoginEnded /\ HasToken(hist.final)))
    => /\ ~LOGGED_IN
       /\ AuthorizationCleared

AllWrong(log) == \A i \in DOMAIN log : log[i] = "wrong"

\* C4: when the password grant requires MFA and the codes entered are k wrong ones
\* followed by a correct one, login makes exactly k+1 MFA submissions and ends
\* logged in with Authorization taken from the final response; after wrong codes
\* only, it is waiting for the answer to one more submission.
C4_MfaLoop ==
    (NoLogoutSince /\ hist.mfaSent > 0)
    => /\ AllWrong(hist.mfaLog)
          => /\ pc = "mfa"
             /\ hist.mfaSent = Len(hist.mfaLog) + 1
       /\ (Len(hist.mfaLog) > 0
             /\ AllWrong(SubSeq(hist.mfaLog, 1, Len(hist.mfaLog) - 1))
             /\ hist.mfaLog[Len(hist.mfaLog)] = "correct")
          => /\ pc = "idle"
             /\ outcome = Returned(NewDetail)
             /\ hist.mfaSent = Len(hist.mfaLog)
             /\ LOGGED_IN
             /\ HasToken(hist.final)
             /\ Authorization = <<hist.final.token_type, hist.final.access_token>>

C4_Witness ==
    /\ hist.mfaLog = <<"wrong", "wrong", "wrong", "correct">>
    /\ hist.mfaSent = 4
    /\ pc = "idle" /\ outcome = Returned(NewDetail)
    /\ LOGGED_IN /\ Authorization = <<"Bearer", "tokB">>

ChallengeHeader == "X-ROBINHOOD-CHALLENGE-RESPONSE-ID"

HeaderOf(h, key) == IF Has(h, key) THEN h[key] ELSE <<>>

IsDict(v) == v # Nothing /\ ~IsNone(v)

\* a response of the challenge endpoint that still holds a challenge with attempts left
StillChallenged(res) == Has(res, "challenge") /\ res.challenge.remaining_attempts > 0

C5_State ==
    /\ hist.retries <= 1
    /\ pc = "challenge"
         => /\ hist.retries = 0
            /\ hist.chalSent >= 1
            /\ hist.chalSent = 1 => hist.chalLast = Nothing
            /\ hist.chalSent > 1 => StillChallenged(hist.chalLast)
    /\ StillChallenged(hist.chalLast) => pc = "challenge"
    /\ hist.retries = 1 <=> (IsDict(hist.chalLast) /\ ~StillChallenged(hist.chalLast))
    /\ pc = "retry"
         => /\ hist.retries = 1
            /\ hist.grants = 2
            /\ HeaderOf(HEADERS, ChallengeHeader) = <<call.challenge_id>>

C5_Step ==
    /\ HeaderOf(HEADERS', ChallengeHeader) # HeaderOf(HEADERS, ChallengeHeader)
         => pc = "challenge" /\ pc' = "retry"
    /\ (pc = "challenge" /\ pc' = "challenge") => hist'.chalSent = hist.chalSent + 1
    /\ hist'.retries # hist.retries
         => \/ pc = "challenge" /\ pc' = "retry"
            \/ pc = "idle" /\ hist'.retries = 0

\* C5: in the challenge branch login posts codes to the challenge endpoint one at
\* a time for as long as the last response still holds a challenge with remaining
\* attempts > 0; only in the step that ends this loop does it set the
\* X-ROBINHOOD-CHALLENGE-RESPONSE-ID header to the challenge id and re-send the
\* password-grant POST, once.
C5_ChallengeLoop == []C5_State /\ [][C5_Step]_vars

C5_Witness ==
    /\ pc = "retry"
    /\ hist.chalSent = 3
    /\ hist.chalLast = ValidatedBody(call.challenge_id)
    /\ hist.retries = 1
    /\ HeaderOf(HEADERS, ChallengeHeader) = <<"ch2">>

\* the challenge loop ended on a response that reports no attempt left
Exhausted ==
    /\ Has(hist.chalLast, "challenge")
    /\ hist.chalLast.challenge.remaining_attempts = 0

\* the call ended at line 194, raising the server's detail message
AuthenticationError ==
    /\ outcome.kind = "raised"
    /\ outcome.error = "Exception"
    /\ outcome.detail # ConnectivityDetail

\* the call ended at line 196
ConnectivityError == outcome = Raised("Exception", ConnectivityDetail)

\* C6: when the challenge loop ends with the attempts exhausted, login ends by
\* raising an authentication error and the login flag is as it was before the call.
C6_ExhaustedChallengeFails ==
    (LoginEnded /\ Exhausted)
    => /\ AuthenticationError
       /\ LOGGED_IN = hist.loggedPre

\* the file holds the tokens of the response data
HoldsTokensOf(file, data) ==
    /\ file \in TokenSets
    /\ Has(data, "token_type") /\ file.token_type = data.token_type
    /\ Has(data, "access_token") /\ file.access_token = data.access_token
    /\ Has(data, "refresh_token") /\ file.refresh_token = data.refresh_token

\* C7: whenever login returns through the password-grant path, the final response
\* holds an access_token, Authorization is '<token_type> <access_token>' of that
\* response, the login flag is true, and the TokenSet file holds that response's
\* token_type, access_token and refresh_token iff store_session was requested.
C7_PasswordGrantSuccess ==
    (pc = "idle" /\ outcome = Returned(NewDetail))
    => /\ HasToken(hist.final)
       /\ Authorization = <<hist.final.token_type, hist.final.access_token>>
       /\ LOGGED_IN
       /\ HoldsTokensOf(pickle, hist.final) <=> call.store_session

C7_Witness ==
    /\ pc = "idle" /\ outcome = Returned(NewDetail)
    /\ call.store_session
    /\ hist.filePre = NoFile
    /\ hist.final = TokenBody("tokB", "refA")
    /\ pickle \in TokenSets /\ pickle.access_token = "tokB"
    /\ Authorization = <<"Bearer", "tokB">> /\ LOGGED_IN

\* C8: when the final password-grant response is non-empty and holds neither an
\* MFA requirement, nor a challenge, nor an access_token, login raises an
\* authentication error, carrying the response's detail when it has one.
C8_OtherResponseRaisesDetail ==
    (LoginEnded /\ IsDict(hist.final) /\ Truthy(hist.final)
        /\ ~Has(hist.final, "mfa_required") /\ ~Has(hist.final, "challenge")
        /\ ~HasToken(hist.final))
    => /\ AuthenticationError
       /\ Has(hist.final, "detail") => outcome.detail = hist.final.detail

\* C9: login raises the connectivity error exactly when the first password-grant
\* POST got no response at all.
C9_ConnectivityOnlyWithoutResponse ==
    (LoginEnded /\ hist.grantGot # "none")
    => (ConnectivityError <=> hist.grantGot = "no")

\* C10: with store_session false, an existing TokenSet file is deleted before the
\* password-grant POST is sent and never read, and no file exists while login
\* waits on the network or when it has ended.
C10_OptOutDeletesFile ==
    (logins > 0 /\ ~call.store_session /\ hist.filePre \in TokenSets)
    => /\ ~exists(pickle)
       /\ ~hist.read
       /\ hist.grants >= 1

\* C11: in login calls with store_session, once the credential file holds a
\* TokenSet the payload of the call (and so every password-grant POST it sends)
\* carries the device_token stored in the file, whatever token was generated for
\* the call, and every TokenSet the file holds afterwards stores that same
\* device_token.
C11_State ==
    (logins > 0 /\ call.store_session /\ hist.filePre \in TokenSets)
    => /\ call.device_token = hist.filePre.device_token
       /\ pickle \in TokenSets => pickle.device_token = hist.filePre.device_token

C11_Step ==
    (pickle \in TokenSets /\ call'.store_session)
    => /\ pickle' \in TokenSets => pickle'.device_token = pickle.device_token
       /\ hist'.grants > hist.grants => call'.device_token = pickle.device_token

LoggedOut == outcome = [op |-> "logout", kind |-> "returned", error |-> "", detail |-> ""]

\* the header map h holds the access token t
HoldsCredential(h, t) == \E k \in DOMAIN h : \E i \in DOMAIN h[k] : h[k][i] = t

\* C12: after logout on a logged-in client the Authorization header holds no
\* token (it reads 'None'), no header holds an access token, the login flag is
\* false and the transport session is closed.
C12_LogoutClears ==
    LoggedOut
    => /\ AuthorizationCleared
       /\ \A t \in AccessTokens : ~HoldsCredential(HEADERS, t)
       /\ ~LOGGED_IN
       /\ SESSION = "closed"

C12_Witness ==
    /\ LoggedOut
    /\ hist.final = TokenBody("tokA", "refA")
    /\ Authorization = <<"None">>
    /\ ~LOGGED_IN /\ SESSION = "closed"

\* C13: a step from a state with the login flag false that is not the start of a
\* login is the call of a login-required operation (logout, or
\* get_latest_notification) that ends at once with the precondition error naming
\* it: no request is in flight or recorded afterwards, and the headers, the login
\* flag and the transport session are as before.
C13_Step ==
    (pc = "idle" /\ ~LOGGED_IN /\ logins' = logins)
    => /\ \E func \in LoginRequired : outcome' = PreconditionError(func)
       /\ pc' = "idle"
       /\ req' = req /\ hist' = hist
       /\ HEADERS' = HEADERS /\ LOGGED_IN' = LOGGED_IN /\ SESSION' = SESSION

C13_LoginRequiredFailsFast == [][C13_Step]_vars

\* after a login and a logout, get_latest_notification was refused
C13_Witness ==
    /\ outcome = PreconditionError("get_latest_notification")
    /\ HasToken(hist.final)
    /\ SESSION = "closed" /\ ~LOGGED_IN
    /\ pc = "idle" /\ req = NoReq

\* C28: a login call made with the login flag false that ends by raising leaves
\* the login flag false and the Authorization header without any token of the
\* credential file or of a server response.
C28_FailedLoginUnauthenticated ==
    (LoginEnded /\ ~hist.loggedPre /\ outcome.kind = "raised")
    => /\ ~LOGGED_IN
       /\ \A t \in AccessTokens : ~HoldsCredential(HEADERS, t)

C29_State ==
    (SESSION = "closed" /\ LoginEnded)
    => /\ outcome.kind = "raised"
       /\ hist.grantGot # "yes"
       /\ ~(Has(hist.probe, "got") /\ hist.probe.got)

C29_Step == SESSION = "closed" => SESSION' = "closed"

GetIn(dataType) ==
    req.fn = "request_get" /\ req.dataType = dataType /\ req.jsonify_data

GetEnded(dataType) == GetIn(dataType) /\ req.pc = "done"

\* the response is a success carrying a JSON object
IsObject(reply) ==
    /\ reply.got /\ reply.status \in 200..299 /\ reply.json = "ok"
    /\ ~IsList(reply.body) /\ ~IsNone(reply.body)

\* the response is a page: a success whose body holds `results` and `next`
IsPage(reply) ==
    IsObject(reply) /\ Has(reply.body, "results") /\ Has(reply.body, "next")

\* the responses are pages, each but the last naming a next page
Linked(replies) ==
    \A i \in DOMAIN replies :
        /\ IsPage(replies[i])
        /\ i < Len(replies) => ~IsNone(replies[i].body.next)

\* the responses are the pages of a whole chain: the last one has no next page
Chain(replies) ==
    /\ replies # <<>>
    /\ Linked(replies)
    /\ IsNone(replies[Len(replies)].body.next)

RECURSIVE Records(_)
\* the records of the pages, in page order
Records(replies) ==
    IF replies = <<>> THEN <<>>
    ELSE replies[1].body.results.list \o Records(Tail(replies))

\* C14: when the responses to a pagination call are the N pages of a chain, each
\* requested at the URL the page before it names as next, the call has ended,
\* returns the records of the N pages concatenated in page order, and has issued
\* exactly N GETs.
C14_PaginationConcatenates ==
    (GetIn("pagination") /\ Chain(req.replies))
    => /\ req.pc = "done"
       /\ req.result = Return(List(Records(req.replies)))
       /\ Len(req.urls) = Len(req.replies)
       /\ \A i \in 2..Len(req.urls) : req.urls[i] = req.replies[i - 1].body.next

C14_Witness ==
    /\ GetEnded("pagination")
    /\ Len(req.replies) = 3 /\ Chain(req.replies)
    /\ req.urls = <<Url("p1"), Url("p2"), Url("p3")>>
    /\ req.result = Return(List(<<Item("r1"), Item("r2"), Item("r1"), Item("r1")>>))

\* the pages before the last response are linked pages and the last response,
\* to the GET of a later page, is not a page
FailedAfterFirst(replies) ==
    /\ Len(replies) >= 2
    /\ Linked(SubSeq(replies, 1, Len(replies) - 1))
    /\ ~IsNone(replies[Len(replies) - 1].body.next)
    /\ ~IsPage(replies[Len(replies)])

\* C15: when the fetch of a page after the first fails (no response, error
\* status, malformed body, or a body lacking `results` or `next`), the pagination
\* call returns the records of the pages before it, in order, and does not raise.
C15_PartialFailureReturnsAccumulated ==
    (GetIn("pagination") /\ FailedAfterFirst(req.replies))
    => /\ req.pc = "done"
       /\ req.result = Return(List(Records(SubSeq(req.replies, 1, Len(req.replies) - 1))))

\* C16: within one pagination call no URL is requested twice.
C16_NoPageFetchedTwice ==
    GetIn("pagination")
    => \A i, j \in DOMAIN req.urls : i # j => req.urls[i] # req.urls[j]

\* the first response is a failure: none arrived (network failure, closed
\* session), an error status, or a body that does not parse
FirstFailed ==
    /\ Len(req.replies) = 1
    /\ fetch_error(req.replies[1]) # ""

\* C17: a request_get call that has ended has returned, not raised, and when its
\* first fetch failed it has returned the sentinel of its mode.
C17_GetNeverRaises ==
    (req.fn = "request_get" /\ req.jsonify_data /\ req.pc = "done")
    => /\ req.result.kind = "returned"
       /\ FirstFailed => req.result = Return(sentinel(req.dataType))

\* the first response of the call
first == req.replies[1]

\* C18 as stated: in results mode a success returns body.results, and a body
\* without `results` yields the empty sequence.
C18_ResultsMissingKeyEmpty ==
    (GetEnded("results") /\ IsObject(first))
    => req.result = IF Has(first.body, "results") THEN Return(first.body.results)
                    ELSE Return(List(<<>>))

\* C18 as amended: in results mode a successful GET of a JSON object returns
\* body.results, and an object without `results` yields the sentinel [None], a
\* sequence holding the single value None.
C18_ResultsMode ==
    (GetEnded("results") /\ IsObject(first))
    => req.result = IF Has(first.body, "results") THEN Return(first.body.results)
                    ELSE Return(List(<<None>>))

C18_Witness ==
    /\ GetEnded("results")
    /\ first = Response(200, "ok", PageNoResults)
    /\ req.result = Return(List(<<None>>))

\* C19: in indexzero mode a successful GET of a JSON object returns
\* body.results[0], and returns None, without raising, when `results` is empty or
\* missing.
C19_IndexZero ==
    (GetEnded("indexzero") /\ IsObject(first))
    => req.result =
          IF Has(first.body, "results") /\ first.body.results.list # <<>>
          THEN Return(first.body.results.list[1])
          ELSE Return(None)

C19_Witness ==
    /\ GetEnded("indexzero")
    /\ first = Response(200, "ok", Page(<<>>, None))
    /\ req.result = Return(None)

\* C20: a request_post call (jsonify_data left true) that got a response returns
\* the parsed body when the status is one of the accepted ones, and raises when it
\* is any other.
C20_PostRaisesOnOtherStatus ==
    (req.fn = "request_post" /\ req.pc = "done" /\ req.jsonify_data /\ req.reply.got)
    => IF req.reply.status \in AcceptedStatus
       THEN req.reply.parsable => req.result = Return(req.reply.body)
       ELSE req.result.kind = "raised"

\* C21: when a request_post call has finished, whatever its json flag and
\* whether it got an accepted status, a rejected status or no response at all,
\* the Content-Type header is the form-urlencoded default again and every other
\* header is what it was.
C21_PostRestoresContentType ==
    (req.fn = "request_post" /\ req.pc = "done")
    => /\ HEADERS["Content-Type"] = FormEncoded
       /\ \A key \in DOMAIN InitialHeaders \ {"Content-Type"} :
             HEADERS[key] = InitialHeaders[key]

DeleteEnded == req.fn = "request_delete" /\ req.pc = "done"

C22_State ==
    DeleteEnded
    => /\ req.result.kind = "returned"
       /\ req.result.value =
             IF req.reply.got /\ req.reply.status < 400 /\ req.reply.json = "ok"
             THEN req.reply.body
             ELSE None

C22_Step ==
    (req'.fn = "request_delete" /\ (req.fn = "request_delete" \/ req'.pc = "delete"))
    => UNCHANGED <<LOGGED_IN, HEADERS, SESSION, pickle>>

\* C22: request_delete never raises: it returns the parsed body when the DELETE
\* succeeded and None on an error status, a network failure, an unparsable body
\* or a closed session, and it leaves the login flag, the headers, the session
\* and the credential file as they were.
C22_DeleteNeverRaises == []C22_State /\ [][C22_Step]_vars

\* a DELETE on a closed session returned None
C22_Witness ==
    /\ DeleteEnded
    /\ SESSION = "closed"
    /\ req.reply = NoResponse("RuntimeError")
    /\ req.result = Return(None)

\* -------- filter_data (SpecHelper)
Filtered == req.fn = "filter_data" /\ req.pc = "done"
IsDictData(v) == ~IsNone(v) /\ ~IsList(v)
IsDictList(v) == IsList(v) /\ v.list # <<>> /\ v.list # <<None>>

\* C23: with a field requested, filter_data returns data[field] for a dict that
\* has it, the sequence of record[field] in order and of the same length for a
\* sequence of dicts that all have it, None for None, and an empty sequence for
\* an empty sequence and for the sentinel [None].
C23_FilterExtracts ==
    (Filtered /\ ~IsNone(req.info))
    => LET data == req.data
           key == req.info.key
       IN  /\ IsNone(data) => req.result = Return(None)
           /\ (IsList(data) /\ ~IsDictList(data)) => req.result = Return(List(<<>>))
           /\ (IsDictData(data) /\ Has(data, key)) => req.result = Return(data[key])
           /\ (IsDictList(data) /\ \A i \in 1..Len(data.list) : Has(data.list[i], key))
              => /\ req.result.kind = "returned"
                 /\ IsList(req.result.value)
                 /\ Len(req.result.value.list) = Len(data.list)
                 /\ \A i \in 1..Len(data.list) :
                       req.result.value.list[i] = data.list[i][key]

\* [{"a": 1}, {"a": 2, "b": 3}] filtered by "a" gave [1, 2]
C23_Witness ==
    /\ Filtered
    /\ req.data = List(<<[a |-> Item("1")], [a |-> Item("2"), b |-> Item("3")]>>)
    /\ req.info = Key("a")
    /\ req.result = Return(List(<<Item("1"), Item("2")>>))

\* C24: a requested field that is absent is never fatal: for a dict and for a
\* sequence of dicts filter_data returns a value, None for a dict lacking the
\* field and an empty sequence for a sequence whose first record lacks it, also
\* when the first record has the field and a later one does not.
C24_AbsentFieldNeverFatal ==
    (Filtered /\ ~IsNone(req.info) /\ (IsDictData(req.data) \/ IsDictList(req.data)))
    => /\ req.result.kind = "returned"
       /\ (IsDictData(req.data) /\ ~Has(req.data, req.info.key))
          => req.result = Return(None)
       /\ (IsDictList(req.data) /\ ~Has(req.data.list[1], req.info.key))
          => req.result = Return(List(<<>>))

\* C25 as stated: with no field requested filter_data returns its data argument
\* unchanged, for None, a dict, a sequence of dicts, an empty sequence and the
\* sentinel [None].
C25_PassThroughAll ==
    (Filtered /\ IsNone(req.info)) => req.result = Return(req.data)

\* C25: with no field requested filter_data returns its data argument unchanged
\* for None, a dict, a sequence of dicts and an empty sequence; the sentinel
\* [None] comes back as an empty sequence.
C25_PassThrough ==
    (Filtered /\ IsNone(req.info))
    => req.result = Return(IF req.data = List(<<None>>) THEN List(<<>>) ELSE req.data)

C25_Witness ==
    /\ Filtered
    /\ IsNone(req.info)
    /\ req.data = List(<<None>>)
    /\ req.result = Return(List(<<>>))

\* -------- two clients (SpecClients)
\* C26: a step of the first client (a login step, logout, a JSON POST) changes
\* neither the headers the second client instance sends nor its login flag.
C26_ClientsIsolated ==
    [][(peer # NoPeer /\ peer' = peer)
       => /\ headers_of(peer)' = headers_of(peer)
          /\ logged_in_of(peer)' = logged_in_of(peer)]_vars

\* -------- concurrent posts (SpecPosts)
\* C27: whatever the interleaving of the request_post calls running on one
\* client, a POST with json=false is sent with the form-urlencoded Content-Type
\* and a POST with json=true with application/json.
C27_PostContentType ==
    \A t \in DOMAIN tasks :
        tasks[t].pc # "idle"
        => tasks[t].sent = IF tasks[t].json THEN JsonType ELSE FormEncoded

\* -------- login, answered (SpecLive)
\* C30 as stated: when every request and every prompt is answered and the
\* server lowers the remaining challenge attempts with each wrong code, every
\* login call ends.
C30_LoginTerminates == (pc # "idle") ~> (pc = "idle")

\* a response to an MFA submission that ends the MFA loop
MfaExit == \E r \in TokenReplies : login_mfa_end(r)

\* the codes submitted in the challenge branch are at most the attempts the
\* server grants
C30_ChallengeBounded == hist.chalSent <= MaxAttempts

\* C30: when every request and every prompt is answered and the server lowers
\* the remaining challenge attempts with each wrong code, the challenge branch
\* submits at most as many codes as the server grants attempts, and every login
\* call ends provided the server does not answer the MFA submissions with a
\* status other than 200 for ever.
C30_LoginTerminatesIfMfaAccepted ==
    /\ []C30_ChallengeBounded
    /\ SF_vars(MfaExit) => C30_LoginTerminates

\* the challenge loop used up every attempt and the login call ended
C30_Witness ==
    /\ LoginEnded
    /\ hist.chalSent = MaxAttempts
    /\ Exhausted
    /\ AuthenticationError

====
